---- MODULE Spec2Model ----
(***************************************************************************)
(* Real-time call-conversation orchestration of the voice agent backend:   *)
(* MediaStreamHandler (app/services/conversation_relay.py) and the parts   *)
(* of VoiceAgentService (app/services/voice_agent.py) it drives.           *)
(*                                                                         *)
(* Every coroutine is a task whose position (pc) is the await it is        *)
(* suspended at; one action runs a task from one await to the next, as     *)
(* the asyncio event loop does.  External collaborators (provider          *)
(* WebSocket, speech-to-text, LLM, text-to-speech, database) answer        *)
(* nondeterministically.                                                   *)
(***************************************************************************)
EXTENDS Integers, Sequences, FiniteSets, TLC

\* ------------------------------------------------------------------ bounds
\* WebSocket connections accepted over a run (each gets its own handler task)
MaxConns == 2
\* the clock advances MaxTicks times, by the staleness timeout each time
MaxTicks == 2
\* a media turn starts only while the context has room for its two messages
MaxMessages == 3
\* inbound frames the provider sends over a run, all sockets together
MaxInbound == 3
\* messages a context on its own is given before its history is read
MaxHistory == 4
\* get_conversation_history is called with limits in -MaxLimit .. MaxLimit
MaxLimit == 5
\* text-input requests made on one call over a run
MaxTextInputs == 1
\* messages one run of the receive loop on its own is given
MaxProcessed == 7
\* WebSockets that connect to the monitoring ConnectionManager over a run
MaxSockets == 3
\* calls of broadcast_to_tenant over a run
MaxBroadcasts == 2

\* ------------------------------------------------------- program constants
timeout_minutes == 30
max_errors == 5

\* ------------------------------------------------------------------ values
None == "None"
NoConn == 0
Calls == {"c1", "c2"}
\* the calls the signaling layer starts and whose media stream carries frames;
\* the stream of any other call stays silent until it ends
Conversing == {"c1"}
Conns == 1..MaxConns
Sids == {"SS1", "SS2"}
APOLOGY_STT == "Sorry, I couldn't understand that."
APOLOGY_LLM == "I apologize, but I'm having trouble processing your request right now."
SUMMARY_EMPTY == "No conversation recorded."
SUMMARY_FAILED == "Call summary generation failed."
GREETING == "Hello! This is agent from tenant. How can I help you today?"

\* texts the recognition service may return for a payload
RawTexts == {"what are your hours", " what are your hours ", "  ", ""}
\* outcomes of the three AI collaborators
SttOutcomes == [kind : {"text"}, text : RawTexts] \cup {[kind |-> "raise", text |-> ""]}
TRANSFER_REPLY == "I'll transfer you to a human agent now. Reason: billing question"
CALLBACK_REPLY == "I've scheduled a callback to +15550100 at 5pm. You'll receive a confirmation shortly."
\* the LLM answers with text or with a call of one of the two declared functions, or fails
LlmOutcomes == {"text", "raise", "transfer_to_human", "schedule_callback"}
\* the keys start_conversation sets in context_data
TenantKeys == {"tenant", "caller_number", "agent_name", "agent_personality"}
\* the limit arguments of get_conversation_history
Limits == (0 - MaxLimit) .. MaxLimit
\* the roles of a message
Roles == {"user", "assistant"}
\* text-to-speech: audio or no audio, returned within 10 seconds of the call or
\* later, and the provider call raising
TtsOutcomes == {"audio", "empty", "raise", "late_audio", "late_empty"}

\* inbound frames of the media-relay protocol, as the receive loop sees them
Msg(e, sid, fmt, pl) == [event |-> e, streamSid |-> sid, mediaFormat |-> fmt, payload |-> pl]
StartEvents ==
    { Msg("start", "SS1", "mulaw", None), Msg("start", "SS2", None, None),
      Msg("start", None, "mulaw", None), Msg("start", "", None, None) }
MediaEvents == { Msg("media", None, None, p) : p \in {None, "bad64", "audio"} }
SimpleEvents == { Msg(e, None, None, None) : e \in {"malformed", "connected", "mark", "stop"} }
Inbound == StartEvents \cup MediaEvents \cup SimpleEvents

VARIABLES
    task,                  \* per connection: the handler coroutine's position and locals
    conn,                  \* per connection: the ConnectionState object
    ws,                    \* per connection: the WebSocket: closed by this process,
                           \* the stream id the provider has announced, frames sent
    active_connections,    \* MediaStreamHandler.active_connections: call id -> connection
    active_conversations,  \* VoiceAgentService.active_conversations: registered call ids
    ctx,                   \* per call: the ConversationContext object
    started,               \* call ids the signaling layer has started
    call_summary,          \* call-record store: Call.summary
    transcripts,           \* call-record store: CallTranscript rows, as turns
    now,                   \* datetime.utcnow(), minutes
    sweep,                 \* the _periodic_cleanup task
    shut,                  \* the shutdown() coroutine
    inbound,               \* inbound frames received so far
    history,               \* the last get_conversation_history call: its argument and result
    text_input,            \* per call: the send_text_input request on it, its position and locals
    conversions,           \* the last call of each audio conversion: its input and what it gave
    status_update,         \* per call: the handle_call_status_update request on it, its position
    manager                \* the monitoring ConnectionManager, its sockets and its broadcast

vars == <<task, conn, ws, active_connections, active_conversations, ctx, started,
          call_summary, transcripts, now, sweep, shut, inbound, history,
          text_input, conversions, status_update, manager>>

\* --------------------------------------------------------- pure functions

\* str.strip() on the texts of the model
Strip(s) ==
    CASE s = " what are your hours " -> "what are your hours"
      [] s = "  " -> ""
      [] OTHER -> s

\* ConnectionState.__init__
NewConnectionState ==
    [stream_sid |-> None, media_format |-> "{}", error_count |-> 0, last_activity |-> now]

\* a staleness test that spares connections with a stream id
is_stale_idle_only(cs) == now - cs.last_activity > timeout_minutes /\ cs.stream_sid = None

\* ConnectionState.is_stale
is_stale(cs) == now - cs.last_activity > timeout_minutes

\* ConnectionState.update_activity, on the object cn[k]
update_activity(cn, k) == [cn EXCEPT ![k].last_activity = now]

\* ConnectionState.increment_error: the new count, and whether the limit is reached
increment_error(cs) == [count |-> cs.error_count + 1, exceeded |-> cs.error_count + 1 >= max_errors]

\* the new message in place of the history
add_message_replacing(c, cx, role, content) ==
    [cx EXCEPT ![c].messages = <<[role |-> role, content |-> content]>>]

\* messages put at the front of the history
add_message_front(c, cx, role, content) ==
    [cx EXCEPT ![c].messages = <<[role |-> role, content |-> content]>> \o @]

\* ConversationContext.add_message
add_message(c, cx, role, content) ==
    [cx EXCEPT ![c].messages = Append(@, [role |-> role, content |-> content])]

\* audio bytes: their encoding and what they say
Bytes(enc, data) == [enc |-> enc, data |-> data]
NoAudio == Bytes(None, None)
AudioInputs ==
    { Bytes(enc, data) : enc \in {"mulaw", "mp3", "wav", "junk"}, data \in {"hello", "bye"} }
        \cup {Bytes("empty", "")}

\* a conversion's call: its argument, whether it raised, what it returned
NoConversion == [input |-> NoAudio, raised |-> FALSE, result |-> NoAudio]

\* a conversion without its except branch
convert_for_whisper_unguarded(audio_data, ok) ==
    IF ok
    THEN [input |-> audio_data, raised |-> FALSE, result |-> Bytes("wav16k", audio_data.data)]
    ELSE [input |-> audio_data, raised |-> TRUE, result |-> NoAudio]

\* AudioProcessor.convert_for_whisper: the raw bytes are read, resampled and
\* exported as WAV (ok), or one of these steps raises and the input is returned
convert_for_whisper(audio_data, ok) ==
    IF ok
    THEN [input |-> audio_data, raised |-> FALSE, result |-> Bytes("wav16k", audio_data.data)]
    ELSE [input |-> audio_data, raised |-> FALSE, result |-> audio_data]

\* AudioProcessor.convert_for_twilio: the bytes are decoded as MP3 and exported
\* as mu-law; when that raises the same is tried from WAV; when that raises as
\* well the input is returned
convert_for_twilio(audio_data, mp3_ok, wav_ok) ==
    IF mp3_ok \/ wav_ok
    THEN [input |-> audio_data, raised |-> FALSE, result |-> Bytes("mulaw8k", audio_data.data)]
    ELSE [input |-> audio_data, raised |-> FALSE, result |-> audio_data]

\* Python's seq[start:]: a negative start counts from the end, and both ends clamp
SliceFrom(seq, start) ==
    LET n == Len(seq)
        s == IF start < 0
             THEN (IF start + n < 0 THEN 0 ELSE start + n)
             ELSE (IF start > n THEN n ELSE start)
    IN SubSeq(seq, s + 1, n)

\* the first limit messages instead of the last
get_conversation_history_first(messages, limit) ==
    SubSeq(messages, 1, IF limit < Len(messages) THEN limit ELSE Len(messages))

\* ConversationContext.get_conversation_history: messages[-limit:] if messages else []
get_conversation_history(messages, limit) ==
    IF messages # <<>> THEN SliceFrom(messages, 0 - limit) ELSE <<>>

\* VoiceAgentService._speech_to_text: the service's text stripped, an apology when it raises
speech_to_text(o) == IF o.kind = "raise" THEN APOLOGY_STT ELSE Strip(o.text)

\* MediaStreamHandler._process_speech_to_text: convert_for_whisper never raises,
\* neither does _speech_to_text, so the except branch (None) is not taken
process_speech_to_text(o) == speech_to_text(o)

\* a test that only rules out a missing transcript
HasSpeech_not_none(t) == t # None

\* _handle_media_event: "if transcript and transcript.strip()"
HasSpeech(t) == t # None /\ t # "" /\ Strip(t) # ""

\* a reply generator that answers a failure with an empty text
generate_ai_response_blank(o) == IF o = "raise" THEN "" ELSE "We are open 9 to 5."

\* VoiceAgentService._generate_ai_response: never raises; a function call is
\* answered with the sentence _handle_function_call returns
generate_ai_response(o) ==
    CASE o = "raise" -> APOLOGY_LLM
      [] o = "transfer_to_human" -> TRANSFER_REPLY
      [] o = "schedule_callback" -> CALLBACK_REPLY
      [] OTHER -> "We are open 9 to 5."

\* VoiceAgentService._handle_function_call, the context it leaves:
\* transfer_to_human sets two keys, schedule_callback sets none
handle_function_call(c, cx, o) ==
    IF o = "transfer_to_human"
    THEN [cx EXCEPT ![c].context_data = @ \cup {"transfer_requested", "transfer_reason"}]
    ELSE cx

\* VoiceAgentService._text_to_speech: audio bytes, b"" when the provider raises
text_to_speech(o) == IF o \in {"audio", "late_audio"} THEN "mp3" ELSE ""

\* asyncio.wait_for(_text_to_speech(...), timeout=10.0) raising TimeoutError:
\* _text_to_speech has no await, its generate() call blocks the event loop
\* until it returns, so the coroutine is finished before the timer can fire
wait_for_expires(o) == FALSE

\* a summary that is left out when the LLM fails
generate_call_summary_unset(msgs, llm_ok) ==
    IF msgs = <<>> THEN SUMMARY_EMPTY
    ELSE IF llm_ok THEN "summary" ELSE None

\* VoiceAgentService._generate_call_summary
generate_call_summary(msgs, llm_ok) ==
    IF msgs = <<>> THEN SUMMARY_EMPTY
    ELSE IF llm_ok THEN "summary" ELSE SUMMARY_FAILED

\* _process_relay_message swallows every exception of the event handlers
\* ("except Exception" after "except json.JSONDecodeError"), so nothing reaches
\* the receive loop's own except branch
ProcessRaises(m) == FALSE

\* ------------------------------------- monitoring ConnectionManager, values

\* monitoring connection ids, tenants, users, and the WebSockets of a run
ConnIds == {"m1", "m2"}
Tenants == {"t1", "t2"}
Users == {"u1", "u2"}
Sockets == 1..MaxSockets

\* the (tenant_id, user_id, call_id) arguments connect is called with
Identities ==
    { [tenant_id |-> "t1", user_id |-> "u1", call_id |-> "c1"],
      [tenant_id |-> "t1", user_id |-> "u2", call_id |-> None],
      [tenant_id |-> "t2", user_id |-> "u2", call_id |-> "c1"],
      [tenant_id |-> None, user_id |-> None, call_id |-> None] }

\* a Python dict as a function: d[k] = v, del d[k]
EmptyDict == [x \in {} |-> None]
Put(d, k, v) == [x \in DOMAIN d \cup {k} |-> IF x = k THEN v ELSE d[x]]
Del(d, k) == [x \in DOMAIN d \ {k} |-> d[x]]

\* a coroutine of broadcast_to_tenant that is not running
NoBroadcast ==
    [pc |-> "idle", tenant_id |-> None, connection_ids |-> {}, connection_id |-> None,
     websocket |-> NoConn, sends |-> 0, broadcasts |-> 0]

\* ConnectionManager.__init__, with the WebSockets that will connect: each has
\* its client_state and the tenants whose broadcasts it has been sent
NewConnectionManager ==
    [active_connections |-> EmptyDict, connection_metadata |-> EmptyDict,
     tenant_connections |-> EmptyDict, user_connections |-> EmptyDict,
     call_connections |-> EmptyDict,
     websockets |-> [s \in Sockets |-> [client_state |-> "CONNECTING", received |-> {}]],
     broadcast |-> NoBroadcast]

\* ------------------------------------------------------------------- state

\* no ConnectionState object: before accept, and once the handler has returned
\* and dropped the last reference to it
NoConnectionState ==
    [stream_sid |-> None, media_format |-> "{}", error_count |-> 0, last_activity |-> 0]

NewTask ==
    [pc |-> "new", call_id |-> None, transcript |-> None, response_text |-> None,
     snd |-> NoConn, ret |-> None, cl |-> NoConn, audio_data |-> None, event_type |-> None]

Init ==
    /\ task = [k \in Conns |-> NewTask]
    /\ conn = [k \in Conns |-> NoConnectionState]
    /\ ws = [k \in Conns |-> [accepted |-> FALSE, closed |-> FALSE, stream |-> None,
                          sent |-> <<>>]]
    /\ active_connections = [c \in Calls |-> NoConn]
    /\ active_conversations = {}
    /\ ctx = [c \in Calls |-> [messages |-> <<>>, context_data |-> {}]]
    /\ started = {}
    /\ call_summary = [c \in Calls |-> None]
    /\ transcripts = [c \in Calls |-> <<>>]
    /\ now = 0
    /\ sweep = [pc |-> "sleep", stale_calls |-> {}, targets |-> {}]
    /\ shut = [pc |-> "idle", ids |-> {}, targets |-> {}]
    /\ inbound = 0
    /\ history = [call_id |-> None, limit |-> 0, result |-> <<>>]
    /\ conversions = [whisper |-> NoConversion, twilio |-> NoConversion]
    /\ text_input = [c \in Calls |-> [pc |-> "idle", text |-> None, response_text |-> None,
                                      requests |-> 0]]
    /\ status_update = [c \in Calls |-> [pc |-> "idle"]]
    /\ manager = NewConnectionManager

\* the handler task of connection k is running
Live(k) == task[k].pc \notin {"new", "done"}

\* the provider opens one media stream per call: no running handler serves c
OneStreamPerCall(c) == \A j \in Conns : Live(j) => task[j].call_id # c

\* ------------------------------------------------- signaling layer (callers)

\* a start that does not look at the tenant
start_conversation_unchecked(c, tenant_found) ==
    /\ c \notin started
    /\ started' = started \cup {c}
    /\ active_conversations' = active_conversations \cup {c}
    /\ ctx' = add_message(c, [ctx EXCEPT ![c] = [messages |-> <<>>, context_data |-> TenantKeys]],
                           "assistant", GREETING)
    /\ UNCHANGED <<task, conn, ws, active_connections, call_summary, transcripts, now, sweep, shut, inbound, history, text_input, conversions, status_update, manager>>

\* VoiceAgentService.start_conversation; the signaling layer creates each call
\* id once. Tenant found: the context is made, registered and given the
\* greeting. Tenant not found: ValueError is raised before a context is made
start_conversation(c, tenant_found) ==
    /\ c \notin started
    /\ started' = started \cup {c}
    /\ IF tenant_found
       THEN /\ active_conversations' = active_conversations \cup {c}
            /\ ctx' = add_message(c, [ctx EXCEPT ![c] = [messages |-> <<>>,
                                                         context_data |-> TenantKeys]],
                                   "assistant", GREETING)
       ELSE UNCHANGED <<active_conversations, ctx>>
    /\ UNCHANGED <<task, conn, ws, active_connections, call_summary, transcripts, now, sweep, shut, inbound, history, text_input, conversions, status_update, manager>>

\* ------------------------------------------------------- sending audio back

\* sending without looking at the stream id
SendEntry_unguarded(reg, cn, c) == reg[c]

\* _send_audio_response, lines 316-323: the connection to send on, NoConn when
\* the call returns early (not registered, or no stream sid)
SendEntry(reg, cn, c) ==
    LET r == reg[c] IN
    IF r = NoConn THEN NoConn
    ELSE IF cn[r].stream_sid \in {None, ""} THEN NoConn
    ELSE r

\* websocket.send_text of one outbound frame on connection r's socket: it raises
\* on a socket already closed, or when the transport fails (ok = FALSE)
Delivered(r, ok) == ok /\ ~ws[r].closed

\* an outbound frame: a media frame has a payload, a mark frame a generated name
Frame(e, sid) ==
    [event |-> e, streamSid |-> sid,
     name |-> IF e = "mark" THEN "fallback_response_<timestamp>" ELSE None]

\* a fallback that sends nothing
send_fallback_response_silent(c, ok) == ws

\* _send_fallback_response: a mark frame on the connection registered now
send_fallback_response(c, ok) ==
    LET r == active_connections[c] IN
    IF r # NoConn /\ Delivered(r, ok)
    THEN [ws EXCEPT ![r].sent = Append(@, Frame("mark", conn[r].stream_sid))]
    ELSE ws

\* a return that goes on to the fallback
AfterSend_to_fallback(t) == [t EXCEPT !.pc = "fallback"]

\* where the handler goes once _send_audio_response has returned
AfterSend(t) ==
    IF t.ret = "greet" THEN [t EXCEPT !.pc = "recv", !.snd = NoConn, !.ret = None]
    ELSE [t EXCEPT !.pc = "save", !.snd = NoConn, !.ret = None]

\* ----------------------------------------------------------- event handlers

\* _handle_connected_event
handle_connected_event(cn, c) ==
    LET r == active_connections[c] IN
    IF r # NoConn THEN update_activity(cn, r) ELSE cn

\* a start event taken as it comes, stream id or not
handle_start_event_unchecked(cn, c, m) ==
    LET r == active_connections[c] IN
    IF r = NoConn THEN cn
    ELSE [cn EXCEPT ![r].stream_sid = m.streamSid,
                    ![r].media_format = IF m.mediaFormat = None THEN "{}" ELSE m.mediaFormat]

\* _handle_start_event
handle_start_event(cn, c, m) ==
    LET r == active_connections[c] IN
    IF r = NoConn THEN cn
    ELSE IF m.streamSid \in {None, ""} THEN cn
    ELSE [cn EXCEPT ![r].stream_sid = m.streamSid,
                    ![r].media_format = IF m.mediaFormat = None THEN "{}" ELSE m.mediaFormat]

\* _handle_stop_event, lines 243-245
handle_stop_event(cn, c) ==
    LET r == active_connections[c] IN
    IF r # NoConn THEN [cn EXCEPT ![r].stream_sid = None] ELSE cn

\* handle_websocket_connection, lines 112-120: what follows _process_relay_message
LoopBack(cn, k, e) ==
    IF ProcessRaises(e)
    THEN LET r == increment_error(cn[k]) IN
         [conn |-> [cn EXCEPT ![k].error_count = r.count],
          pc |-> IF r.exceeded THEN "cleanup" ELSE "recv"]
    ELSE [conn |-> update_activity(cn, k), pc |-> "recv"]

\* an end_conversation that goes on without a context
end_conversation_begins_always(c) == TRUE

\* VoiceAgentService.end_conversation, lines 145-146: with a context registered
\* the coroutine goes on to its awaits; without one it returns at once
end_conversation_begins(c) == c \in active_conversations

\* VoiceAgentService.end_conversation past its awaits, for a context found at
\* its start: summary, call record, removal from the registry
end_conversation(c, llm_ok, db_ok) ==
    LET summary == generate_call_summary(ctx[c].messages, llm_ok) IN
    IF ~db_ok
    THEN [raised |-> TRUE, convs |-> active_conversations, summ |-> call_summary]
    ELSE [raised |-> c \notin active_conversations,
          convs |-> active_conversations \ {c},
          summ |-> [call_summary EXCEPT ![c] = summary]]

\* ---------------------------------------- handle_websocket_connection, by await

\* lines 98-108: websocket.accept() returns or raises; on return the
\* ConnectionState is created and registered and the greeting is attempted
Accept(k, c, ok) ==
    /\ task[k].pc = "new"
    /\ \A j \in Conns : j < k => task[j].pc # "new"
    /\ IF ok
       THEN LET cn == [conn EXCEPT ![k] = NewConnectionState]
                reg == [active_connections EXCEPT ![c] = k]
                greet == c \in active_conversations /\ ctx[c].messages # <<>>
                target == IF greet THEN SendEntry(reg, cn, c) ELSE NoConn
            IN /\ conn' = cn
               /\ ws' = [ws EXCEPT ![k].accepted = TRUE]
               /\ active_connections' = reg
               /\ task' = [task EXCEPT ![k] =
                             IF target = NoConn
                             THEN [@ EXCEPT !.pc = "recv", !.call_id = c]
                             ELSE [@ EXCEPT !.pc = "tts", !.call_id = c,
                                            !.snd = target, !.ret = "greet"]]
       ELSE /\ task' = [task EXCEPT ![k] = [@ EXCEPT !.pc = "cleanup", !.call_id = c]]
            /\ UNCHANGED <<conn, ws, active_connections>>
    /\ UNCHANGED <<active_conversations, ctx, started, call_summary, transcripts,
                   now, sweep, shut, inbound, history, text_input, conversions, status_update, manager>>

\* the provider's side of socket k: the stream id of its last start event, none
\* once it has sent stop
provider_stream(w, k, m) ==
    IF m.event = "start" /\ m.streamSid \notin {None, ""} THEN [w EXCEPT ![k].stream = m.streamSid]
    ELSE IF m.event = "stop" THEN [w EXCEPT ![k].stream = None]
    ELSE w

\* lines 111-114 with _process_relay_message: one inbound frame is received and
\* dispatched, up to the first await of its handler
ReceiveFrame(k, m) ==
    LET c == task[k].call_id IN
    /\ task[k].pc = "recv"
    /\ ~ws[k].closed
    /\ inbound < MaxInbound
    /\ inbound' = inbound + 1
    /\ ws' = provider_stream(ws, k, m)
    /\ CASE m.event = "connected" ->
              /\ conn' = LoopBack(handle_connected_event(conn, c), k, m.event).conn
              /\ task' = [task EXCEPT ![k] = [@ EXCEPT !.pc = LoopBack(conn, k, m.event).pc,
                                                       !.transcript = None, !.event_type = m.event]]
         [] m.event = "start" ->
              /\ conn' = LoopBack(handle_start_event(conn, c, m), k, m.event).conn
              /\ task' = [task EXCEPT ![k] = [@ EXCEPT !.pc = LoopBack(conn, k, m.event).pc,
                                                       !.transcript = None, !.event_type = m.event]]
         [] m.event = "media" /\ m.payload = "audio" ->
              \* _handle_media_event awaits speech-to-text
              /\ c \in active_conversations => Len(ctx[c].messages) + 2 <= MaxMessages
              /\ task' = [task EXCEPT ![k] = [@ EXCEPT !.pc = "stt", !.transcript = None, !.event_type = m.event]]
              /\ conn' = conn
         [] m.event = "stop" ->
              \* stream_sid is cleared, then end_conversation awaits when a
              \* context is registered
              IF end_conversation_begins(c)
              THEN /\ conn' = handle_stop_event(conn, c)
                   /\ task' = [task EXCEPT ![k] = [@ EXCEPT !.pc = "stop_ending", !.transcript = None, !.event_type = m.event]]
              ELSE /\ conn' = LoopBack(handle_stop_event(conn, c), k, m.event).conn
                   /\ task' = [task EXCEPT ![k] = [@ EXCEPT !.pc = LoopBack(conn, k, m.event).pc,
                                                       !.transcript = None, !.event_type = m.event]]
         [] OTHER ->
              \* malformed JSON, an unknown event, a media event without a
              \* payload or with one that is not base64: logged
              /\ conn' = LoopBack(conn, k, m.event).conn
              /\ task' = [task EXCEPT ![k] = [@ EXCEPT !.pc = LoopBack(conn, k, m.event).pc,
                                                       !.transcript = None, !.event_type = m.event]]
    /\ UNCHANGED <<active_connections, active_conversations, ctx, started,
                   call_summary, transcripts, now, sweep, shut, history, text_input, conversions, status_update, manager>>

\* the provider sends frames on the streams of the calls that converse
Receive(k, m) == task[k].call_id \in Conversing /\ ReceiveFrame(k, m)

\* websocket.ping() on the handler's socket, line 145: fastapi's WebSocket has
\* no ping method, so the call raises AttributeError whether or not the peer
\* is alive
websocket_ping(peer_alive) == "raise"

\* _message_handler, lines 141-148: no message for 30 s; the ping is tried and
\* the loop goes on if it returns, ends if it raises
ReceiveTimeout(k, ping_ok) ==
    /\ task[k].pc = "recv"
    /\ ~ws[k].closed
    /\ task' = [task EXCEPT ![k] = [@ EXCEPT !.pc = IF websocket_ping(ping_ok) = "ok"
                                                    THEN "recv" ELSE "cleanup",
                                             !.transcript = None, !.event_type = None]]
    /\ UNCHANGED <<conn, ws, active_connections, active_conversations, ctx, started,
                   call_summary, transcripts, now, sweep, shut, inbound, history, text_input, conversions, status_update, manager>>

\* _message_handler, lines 149-154: the peer disconnects, or receive raises on
\* a socket this process has closed; the loop ends
ReceiveFails(k) ==
    /\ task[k].pc = "recv"
    /\ task' = [task EXCEPT ![k] = [@ EXCEPT !.pc = "cleanup", !.transcript = None, !.event_type = None]]
    /\ UNCHANGED <<conn, ws, active_connections, active_conversations, ctx, started,
                   call_summary, transcripts, now, sweep, shut, inbound, history, text_input, conversions, status_update, manager>>

\* _handle_media_event, lines 230-234, and _generate_and_send_response, lines
\* 291-301: speech-to-text has answered
SpeechToText(k, o) ==
    LET c == task[k].call_id
        transcript == process_speech_to_text(o)
    IN
    /\ task[k].pc = "stt"
    /\ IF HasSpeech(transcript) /\ c \in active_conversations
       THEN /\ ctx' = add_message(c, ctx, "user", transcript)
            /\ task' = [task EXCEPT ![k] = [@ EXCEPT !.pc = "llm", !.transcript = transcript]]
            /\ conn' = conn
       ELSE /\ conn' = LoopBack(conn, k, "media").conn
            /\ task' = [task EXCEPT ![k] = [@ EXCEPT !.pc = LoopBack(conn, k, "media").pc,
                                                     !.transcript = transcript]]
            /\ ctx' = ctx
    /\ UNCHANGED <<ws, active_connections, active_conversations, started,
                   call_summary, transcripts, now, sweep, shut, inbound, history, text_input, conversions, status_update, manager>>

\* _generate_and_send_response, lines 301-305, and _send_audio_response, lines
\* 316-331: the LLM has answered
GenerateReply(k, o) ==
    LET c == task[k].call_id
        response_text == generate_ai_response(o)
        target == SendEntry(active_connections, conn, c)
    IN
    /\ task[k].pc = "llm"
    /\ ctx' = add_message(c, handle_function_call(c, ctx, o), "assistant", response_text)
    /\ task' = [task EXCEPT ![k] =
                  IF target = NoConn
                  THEN [@ EXCEPT !.pc = "save", !.response_text = response_text]
                  ELSE [@ EXCEPT !.pc = "tts", !.response_text = response_text,
                                 !.snd = target, !.ret = "turn"]]
    /\ UNCHANGED <<conn, ws, active_connections, active_conversations, started,
                   call_summary, transcripts, now, sweep, shut, inbound, history, text_input, conversions, status_update, manager>>

\* _send_audio_response, lines 330-363: text-to-speech has answered, or the 10 s
\* bound has passed; a media frame is sent, or the mark fallback
Synthesize(k, o, send_ok) ==
    LET c == task[k].call_id
        r == task[k].snd
        audio_data == text_to_speech(o)
    IN
    /\ task[k].pc = "tts"
    /\ IF wait_for_expires(o)
       THEN /\ ws' = send_fallback_response(c, send_ok)
            /\ task' = [task EXCEPT ![k] = AfterSend(@)]
       ELSE IF audio_data = ""
       THEN /\ ws' = send_fallback_response(c, send_ok)
            /\ task' = [task EXCEPT ![k] = [AfterSend(@) EXCEPT !.audio_data = audio_data]]
       ELSE IF Delivered(r, send_ok)
       THEN /\ ws' = [ws EXCEPT ![r].sent = Append(@, Frame("media", conn[r].stream_sid))]
            /\ task' = [task EXCEPT ![k] = [AfterSend(@) EXCEPT !.audio_data = audio_data]]
       ELSE /\ ws' = ws
            /\ task' = [task EXCEPT ![k] = [@ EXCEPT !.pc = "fallback",
                                                     !.audio_data = audio_data]]
    /\ UNCHANGED <<conn, active_connections, active_conversations, ctx, started,
                   call_summary, transcripts, now, sweep, shut, inbound, history, text_input, conversions, status_update, manager>>

\* _send_audio_response, lines 361-363: send_text of the media frame has raised
Fallback(k, send_ok) ==
    /\ task[k].pc = "fallback"
    /\ ws' = send_fallback_response(task[k].call_id, send_ok)
    /\ task' = [task EXCEPT ![k] = AfterSend(@)]
    /\ UNCHANGED <<conn, active_connections, active_conversations, ctx, started,
                   call_summary, transcripts, now, sweep, shut, inbound, history, text_input, conversions, status_update, manager>>

\* _generate_and_send_response, line 308, with _save_transcript: the commit
\* succeeds or fails (logged); the turn is complete
SaveTranscript(k, db_ok) ==
    LET c == task[k].call_id IN
    /\ task[k].pc = "save"
    /\ transcripts' = IF db_ok
                      THEN [transcripts EXCEPT ![c] =
                              Append(@, [user |-> task[k].transcript,
                                         assistant |-> task[k].response_text])]
                      ELSE transcripts
    /\ conn' = LoopBack(conn, k, "media").conn
    /\ task' = [task EXCEPT ![k] = [@ EXCEPT !.pc = LoopBack(conn, k, "media").pc,
                                             !.transcript = None, !.response_text = None,
                                             !.audio_data = None]]
    /\ UNCHANGED <<ws, active_connections, active_conversations, ctx, started,
                   call_summary, now, sweep, shut, inbound, history, text_input, conversions, status_update, manager>>

\* _handle_stop_event, lines 248-251: end_conversation has run, or raised (logged)
StopEnded(k, llm_ok, db_ok) ==
    LET c == task[k].call_id
        r == end_conversation(c, llm_ok, db_ok)
    IN
    /\ task[k].pc = "stop_ending"
    /\ active_conversations' = r.convs
    /\ call_summary' = r.summ
    /\ conn' = LoopBack(conn, k, "stop").conn
    /\ task' = [task EXCEPT ![k].pc = LoopBack(conn, k, "stop").pc]
    /\ UNCHANGED <<ws, active_connections, ctx, started, transcripts, now, sweep, shut, inbound, history, text_input, conversions, status_update, manager>>

\* ------------------------------------------------------- _cleanup_connection

\* a cleanup that empties the registry
unregister_all(c) == [d \in Calls |-> NoConn]

\* lines 391-395: the connection registered under the call id is looked up and
\* the entry deleted
unregister(c) == [active_connections EXCEPT ![c] = NoConn]

\* a cleanup that leaves the socket alone
close_websocket_skipped(w, cl) == w

\* lines 405-409: close() on the socket of the connection found, if any
close_websocket(w, cl) == IF cl # NoConn THEN [w EXCEPT ![cl].closed = TRUE] ELSE w

\* handle_websocket_connection returns: its ConnectionState is dropped, and so
\* is the record of the frames its socket carried
release(cn, k) == [cn EXCEPT ![k] = NoConnectionState]
forget(w, k) == [w EXCEPT ![k].sent = <<>>, ![k].stream = None]

\* handle_websocket_connection, line 129: the finally block calls
\* _cleanup_connection(call_id, db); with a context registered it awaits
\* end_conversation, else it closes the socket and the handler is done
Cleanup(k) ==
    LET c == task[k].call_id
        cl == active_connections[c]
    IN
    /\ task[k].pc = "cleanup"
    /\ active_connections' = unregister(c)
    /\ IF c \in active_conversations
       THEN /\ task' = [task EXCEPT ![k] = [@ EXCEPT !.pc = "cl_ending", !.cl = cl]]
            /\ ws' = ws
            /\ conn' = conn
       ELSE /\ task' = [task EXCEPT ![k] = [@ EXCEPT !.pc = "done", !.transcript = None]]
            /\ ws' = forget(close_websocket(ws, cl), k)
            /\ conn' = release(conn, k)
    /\ UNCHANGED <<active_conversations, ctx, started, call_summary, transcripts,
                   now, sweep, shut, inbound, history, text_input, conversions, status_update, manager>>

\* _cleanup_connection, lines 399-411: end_conversation has run, or raised
\* (logged); the socket is closed and the handler is done
CleanupEnded(k, llm_ok, db_ok) ==
    LET c == task[k].call_id
        r == end_conversation(c, llm_ok, db_ok)
    IN
    /\ task[k].pc = "cl_ending"
    /\ active_conversations' = r.convs
    /\ call_summary' = r.summ
    /\ ws' = forget(close_websocket(ws, task[k].cl), k)
    /\ conn' = release(conn, k)
    /\ task' = [task EXCEPT ![k] = [@ EXCEPT !.pc = "done", !.cl = NoConn, !.transcript = None]]
    /\ UNCHANGED <<active_connections, ctx, started, transcripts, now, sweep, shut, inbound, history, text_input, conversions, status_update, manager>>

\* ------------------------------------------------------------ staleness sweep

\* _cleanup_stale_connections, lines 79-82
StaleCalls ==
    { c \in Calls : active_connections[c] # NoConn /\ is_stale(conn[active_connections[c]]) }

\* the registered connections that have been idle for more than 30 minutes when
\* a sweep cycle starts (recorded for the cycle, not read by the code)
Overdue ==
    { k \in Conns : /\ \E c \in Calls : active_connections[c] = k
                    /\ now - conn[k].last_activity > 30 }

\* _cleanup_connection(call_id, None), as the sweep and shutdown call it: the
\* entry is deleted, no conversation is ended, the socket is closed
cleanup_without_db(c) ==
    /\ ws' = close_websocket(ws, active_connections[c])
    /\ active_connections' = unregister(c)

\* _periodic_cleanup wakes with stale connections registered (a cycle that
\* finds none changes nothing): the stale call ids are listed and the first is
\* cleaned up; the task sleeps again after the last
SweepStart ==
    /\ sweep.pc = "sleep"
    /\ \E c \in StaleCalls :
         /\ sweep' = IF StaleCalls = {c}
                      THEN [pc |-> "sleep", stale_calls |-> {}, targets |-> {}]
                      ELSE [pc |-> "sweeping", stale_calls |-> StaleCalls \ {c},
                            targets |-> Overdue]
         /\ cleanup_without_db(c)
    /\ UNCHANGED <<task, conn, active_conversations, ctx, started, call_summary,
                   transcripts, now, shut, inbound, history, text_input, conversions, status_update, manager>>

\* the next listed call id is cleaned up
SweepNext(c) ==
    /\ sweep.pc = "sweeping"
    /\ c \in sweep.stale_calls
    /\ sweep' = IF sweep.stale_calls = {c}
                 THEN [pc |-> "sleep", stale_calls |-> {}, targets |-> {}]
                 ELSE [sweep EXCEPT !.stale_calls = @ \ {c}]
    /\ cleanup_without_db(c)
    /\ UNCHANGED <<task, conn, active_conversations, ctx, started, call_summary,
                   transcripts, now, shut, inbound, history, text_input, conversions, status_update, manager>>

\* ------------------------------------------------------------------ shutdown

\* shutdown, lines 421-426: the sweep task is cancelled and awaited
ShutdownStart ==
    /\ shut.pc = "idle"
    /\ shut' = [shut EXCEPT !.pc = "cancelling"]
    /\ sweep' = [pc |-> "cancelled", stale_calls |-> {}, targets |-> {}]
    /\ UNCHANGED <<task, conn, ws, active_connections, active_conversations, ctx,
                   started, call_summary, transcripts, now, inbound, history, text_input, conversions, status_update, manager>>

Registered == { c \in Calls : active_connections[c] # NoConn }

\* shutdown, lines 429-431: the registered call ids are listed; the first is
\* cleaned up, with db = None, up to the await of close()
ShutdownSnapshot ==
    /\ shut.pc = "cancelling"
    /\ IF Registered = {}
       THEN /\ shut' = [shut EXCEPT !.pc = "done"]
            /\ UNCHANGED <<ws, active_connections>>
       ELSE \E c \in Registered :
            /\ shut' = [pc |-> "cleaning", ids |-> Registered \ {c},
                        targets |-> { active_connections[d] : d \in Registered }]
            /\ cleanup_without_db(c)
    /\ UNCHANGED <<task, conn, active_conversations, ctx, started, call_summary,
                   transcripts, now, sweep, inbound, history, text_input, conversions, status_update, manager>>

\* the next listed call id is cleaned up
ShutdownNext(c) ==
    /\ shut.pc = "cleaning"
    /\ c \in shut.ids
    /\ shut' = [shut EXCEPT !.ids = @ \ {c}]
    /\ cleanup_without_db(c)
    /\ UNCHANGED <<task, conn, active_conversations, ctx, started, call_summary,
                   transcripts, now, sweep, inbound, history, text_input, conversions, status_update, manager>>

\* shutdown returns
ShutdownReturn ==
    /\ shut.pc = "cleaning"
    /\ shut.ids = {}
    /\ shut' = [pc |-> "done", ids |-> {}, targets |-> {}]
    /\ UNCHANGED <<task, conn, ws, active_connections, active_conversations, ctx,
                   started, call_summary, transcripts, now, sweep, inbound, history, text_input, conversions, status_update, manager>>

\* --------------------------------------------------------------------- clock

Tick ==
    /\ now < MaxTicks * timeout_minutes
    /\ now' = now + timeout_minutes
    /\ UNCHANGED <<task, conn, ws, active_connections, active_conversations, ctx,
                   started, call_summary, transcripts, sweep, shut, inbound, history, text_input, conversions, status_update, manager>>

\* ------------------------------------------------------------- specification

\* the signaling layer and the handler tasks
Handlers ==
    \/ \E c \in Conversing, tenant_found \in BOOLEAN : start_conversation(c, tenant_found)
    \/ \E k \in Conns, c \in Calls, ok \in BOOLEAN : OneStreamPerCall(c) /\ Accept(k, c, ok)
    \/ \E k \in Conns, m \in Inbound : Receive(k, m)
    \/ \E k \in Conns, ok \in BOOLEAN : ReceiveTimeout(k, ok)
    \/ \E k \in Conns : ReceiveFails(k)
    \/ \E k \in Conns, o \in SttOutcomes : SpeechToText(k, o)
    \/ \E k \in Conns, o \in LlmOutcomes : GenerateReply(k, o)
    \/ \E k \in Conns, o \in TtsOutcomes, ok \in BOOLEAN : Synthesize(k, o, ok)
    \/ \E k \in Conns, ok \in BOOLEAN : Fallback(k, ok)
    \/ \E k \in Conns, ok \in BOOLEAN : SaveTranscript(k, ok)
    \/ \E k \in Conns, l \in BOOLEAN, d \in BOOLEAN : StopEnded(k, l, d)
    \/ \E k \in Conns : Cleanup(k)
    \/ \E k \in Conns, l \in BOOLEAN, d \in BOOLEAN : CleanupEnded(k, l, d)

\* send_text_input, lines 222-232: the active call is found and has a context;
\* the user message is appended and the LLM awaited
TextInput(c, text) ==
    /\ text_input[c].pc = "idle" /\ text_input[c].requests < MaxTextInputs
    /\ c \in active_conversations
    /\ ctx' = add_message(c, ctx, "user", text)
    /\ text_input' = [text_input EXCEPT ![c] = [@ EXCEPT !.pc = "llm", !.text = text,
                                                         !.requests = @ + 1]]
    /\ UNCHANGED <<task, conn, ws, active_connections, active_conversations, started,
                   call_summary, transcripts, now, sweep, shut, inbound, history, conversions, status_update, manager>>

\* send_text_input, lines 232-241: the LLM has answered; the assistant message is
\* appended, text-to-speech runs, the transcript write is awaited
TextReply(c, o) ==
    /\ text_input[c].pc = "llm"
    /\ ctx' = add_message(c, handle_function_call(c, ctx, o), "assistant",
                           generate_ai_response(o))
    /\ text_input' = [text_input EXCEPT ![c] = [@ EXCEPT !.pc = "save",
                                                         !.response_text = generate_ai_response(o)]]
    /\ UNCHANGED <<task, conn, ws, active_connections, active_conversations, started,
                   call_summary, transcripts, now, sweep, shut, inbound, history, conversions, status_update, manager>>

\* send_text_input, lines 239-256: _save_transcript has written the turn, or
\* failed (logged); the response is returned
TextSaved(c, db_ok) ==
    /\ text_input[c].pc = "save"
    /\ transcripts' = IF db_ok
                      THEN [transcripts EXCEPT ![c] =
                              Append(@, [user |-> text_input[c].text,
                                         assistant |-> text_input[c].response_text])]
                      ELSE transcripts
    /\ text_input' = [text_input EXCEPT ![c] = [@ EXCEPT !.pc = "idle", !.text = None,
                                                         !.response_text = None]]
    /\ UNCHANGED <<task, conn, ws, active_connections, active_conversations, ctx, started,
                   call_summary, now, sweep, shut, inbound, history, conversions, status_update, manager>>

\* audio_processor.convert_for_whisper(audio_data), as _process_speech_to_text calls it
ConvertForWhisper(audio_data, ok) ==
    /\ conversions' = [conversions EXCEPT !.whisper = convert_for_whisper(audio_data, ok)]
    /\ UNCHANGED <<task, conn, ws, active_connections, active_conversations, ctx, started,
                   call_summary, transcripts, now, sweep, shut, inbound, history, text_input, status_update, manager>>

\* audio_processor.convert_for_twilio(audio_data), as _send_audio_response calls it
ConvertForTwilio(audio_data, mp3_ok, wav_ok) ==
    /\ conversions' = [conversions EXCEPT
                          !.twilio = convert_for_twilio(audio_data, mp3_ok, wav_ok)]
    /\ UNCHANGED <<task, conn, ws, active_connections, active_conversations, ctx, started,
                   call_summary, transcripts, now, sweep, shut, inbound, history, text_input, status_update, manager>>

\* a ConversationContext on its own: context.add_message(role, content)
AddMessage(c, role, content) ==
    /\ Len(ctx[c].messages) < MaxHistory
    /\ ctx' = add_message(c, ctx, role, content)
    /\ UNCHANGED <<task, conn, ws, active_connections, active_conversations, started,
                   call_summary, transcripts, now, sweep, shut, inbound, history, text_input, conversions, status_update, manager>>

\* context.get_conversation_history(limit), the call and what it returned
GetHistory(c, limit) ==
    /\ history' = [call_id |-> c, limit |-> limit,
                   result |-> get_conversation_history(ctx[c].messages, limit)]
    /\ UNCHANGED <<task, conn, ws, active_connections, active_conversations, ctx, started,
                   call_summary, transcripts, now, sweep, shut, inbound, text_input, conversions, status_update, manager>>

\* the running service: handlers, the periodic sweep and the clock (the
\* application never calls shutdown())
Next ==
    \/ Handlers
    \/ SweepStart
    \/ \E c \in Calls : SweepNext(c)
    \/ Tick

Spec == Init /\ [][Next]_vars

\* the service while shutdown() is called on it
NextShutdown ==
    \/ Handlers
    \/ ShutdownStart
    \/ ShutdownSnapshot
    \/ \E c \in Calls : ShutdownNext(c)
    \/ ShutdownReturn

SpecShutdown == Init /\ [][NextShutdown]_vars

\* a conversation context used on its own: messages are added and the history read
NextHistory ==
    \/ \E c \in Conversing, role \in Roles : AddMessage(c, role, "what are your hours")
    \/ \E c \in Conversing, limit \in Limits : GetHistory(c, limit)

SpecHistory == Init /\ [][NextHistory]_vars

\* the audio processor used on its own
NextAudio ==
    \/ \E a \in AudioInputs, ok \in BOOLEAN : ConvertForWhisper(a, ok)
    \/ \E a \in AudioInputs, mp3_ok \in BOOLEAN, wav_ok \in BOOLEAN :
          ConvertForTwilio(a, mp3_ok, wav_ok)

SpecAudio == Init /\ [][NextAudio]_vars

\* the frames and the service answers of a plain conversation
PlainFrames ==
    { Msg("start", "SS1", "mulaw", None), Msg("media", None, None, "audio"),
      Msg("stop", None, None, None) }
PlainStt == {[kind |-> "text", text |-> "what are your hours"]}
PlainLlm == {"text", "transfer_to_human"}
PlainTts == {"audio", "raise"}

\* the media stream handlers of two calls, each with its own conversation
NextTwoCalls ==
    \/ \E c \in Calls : start_conversation(c, TRUE)
    \/ \E k \in Conns, c \in Calls, ok \in BOOLEAN : OneStreamPerCall(c) /\ Accept(k, c, ok)
    \/ \E k \in Conns, m \in PlainFrames : ReceiveFrame(k, m)
    \/ \E k \in Conns : ReceiveFails(k)
    \/ \E k \in Conns, o \in PlainStt : SpeechToText(k, o)
    \/ \E k \in Conns, o \in PlainLlm : GenerateReply(k, o)
    \/ \E k \in Conns, o \in PlainTts, ok \in BOOLEAN : Synthesize(k, o, ok)
    \/ \E k \in Conns, ok \in BOOLEAN : Fallback(k, ok)
    \/ \E k \in Conns, ok \in BOOLEAN : SaveTranscript(k, ok)
    \/ \E k \in Conns, l \in BOOLEAN, d \in BOOLEAN : StopEnded(k, l, d)
    \/ \E k \in Conns : Cleanup(k)
    \/ \E k \in Conns, l \in BOOLEAN, d \in BOOLEAN : CleanupEnded(k, l, d)
    \/ SweepStart
    \/ \E c \in Calls : SweepNext(c)
    \/ Tick

SpecTwoCalls == Init /\ [][NextTwoCalls]_vars

\* the LLM's answers to text-input requests: text, or a failure
TextLlmOutcomes == {"text", "raise"}

\* the media stream handlers and the text-input endpoint on the same calls
NextTextInput ==
    \/ \E c \in Conversing : start_conversation(c, TRUE)
    \/ \E k \in Conns, c \in Calls, ok \in BOOLEAN : OneStreamPerCall(c) /\ Accept(k, c, ok)
    \/ \E k \in Conns, m \in PlainFrames : Receive(k, m)
    \/ \E k \in Conns : ReceiveFails(k)
    \/ \E k \in Conns, o \in PlainStt : SpeechToText(k, o)
    \/ \E k \in Conns, o \in PlainLlm : GenerateReply(k, o)
    \/ \E k \in Conns, o \in PlainTts, ok \in BOOLEAN : Synthesize(k, o, ok)
    \/ \E k \in Conns, ok \in BOOLEAN : Fallback(k, ok)
    \/ \E k \in Conns, ok \in BOOLEAN : SaveTranscript(k, ok)
    \/ \E k \in Conns, l \in BOOLEAN, d \in BOOLEAN : StopEnded(k, l, d)
    \/ \E k \in Conns : Cleanup(k)
    \/ \E k \in Conns, l \in BOOLEAN, d \in BOOLEAN : CleanupEnded(k, l, d)
    \/ \E c \in Conversing : TextInput(c, "do you deliver")
    \/ \E c \in Conversing, o \in TextLlmOutcomes : TextReply(c, o)
    \/ \E c \in Conversing, ok \in BOOLEAN : TextSaved(c, ok)

SpecTextInput == Init /\ [][NextTextInput]_vars

\* handle_websocket_connection, lines 112-120, for one message of the loop:
\* _process_relay_message returns and update_activity is called, or an
\* exception leaves it and increment_error is called, with the break at the
\* limit. (MediaStreamHandler's own _process_relay_message catches every
\* Exception, see ProcessRaises; here the loop is taken with a message
\* processing that may raise, as its except branch is written for.)
LoopIteration(k, raised) ==
    /\ task[k].pc = "recv"
    /\ inbound < MaxProcessed
    /\ inbound' = inbound + 1
    /\ IF raised
       THEN LET r == increment_error(conn[k]) IN
            /\ conn' = [conn EXCEPT ![k].error_count = r.count]
            /\ task' = [task EXCEPT ![k].pc = IF r.exceeded THEN "cleanup" ELSE "recv"]
       ELSE /\ conn' = update_activity(conn, k)
            /\ task' = task
    /\ UNCHANGED <<ws, active_connections, active_conversations, ctx, started,
                   call_summary, transcripts, now, sweep, shut, history, text_input, conversions, status_update, manager>>

\* the receive loop and the error counter of its ConnectionState on their own
NextErrors ==
    \/ \E k \in Conns, c \in Calls : OneStreamPerCall(c) /\ Accept(k, c, TRUE)
    \/ \E k \in Conns, raised \in BOOLEAN : LoopIteration(k, raised)
    \/ \E k \in Conns : Cleanup(k)
    \/ Tick

SpecErrors == Init /\ [][NextErrors]_vars

\* the handler of connection k runs on: a service or the store it awaits
\* answers, receive raises on the socket this process has closed
\* (WebSocketDisconnect), the finally block runs
Progress(k) ==
    \/ ws[k].closed /\ ReceiveFails(k)
    \/ \E o \in PlainStt : SpeechToText(k, o)
    \/ \E o \in PlainLlm : GenerateReply(k, o)
    \/ \E o \in PlainTts, ok \in BOOLEAN : Synthesize(k, o, ok)
    \/ \E ok \in BOOLEAN : Fallback(k, ok)
    \/ \E ok \in BOOLEAN : SaveTranscript(k, ok)
    \/ \E l \in BOOLEAN, d \in BOOLEAN : StopEnded(k, l, d)
    \/ Cleanup(k)
    \/ \E l \in BOOLEAN, d \in BOOLEAN : CleanupEnded(k, l, d)

\* one call with its media stream, a second stream that stays silent, and the
\* sweep; the provider sends frames and may hang up
NextSwept ==
    \/ \E c \in Conversing : start_conversation(c, TRUE)
    \/ \E k \in Conns, c \in Calls, ok \in BOOLEAN : OneStreamPerCall(c) /\ Accept(k, c, ok)
    \/ \E k \in Conns, m \in PlainFrames : Receive(k, m)
    \/ \E k \in Conns : ~ws[k].closed /\ ReceiveFails(k)
    \/ \E k \in Conns : Progress(k)
    \/ SweepStart
    \/ \E c \in Calls : SweepNext(c)
    \/ Tick

\* the event loop runs every task that can run, and every awaited service
\* answers in the end (with a result or an exception)
SpecSwept == Init /\ [][NextSwept]_vars /\ \A k \in Conns : WF_vars(Progress(k))

\* TwilioService.handle_call_status_update, lines 231-266, for a terminal
\* status: the call record is updated (or the store raises and the request
\* ends), then end_conversation is called and, with a context registered,
\* awaits the summary
StatusUpdate(c, db_ok) ==
    /\ status_update[c].pc = "idle"
    /\ c \in started
    /\ status_update' = [status_update EXCEPT ![c].pc =
                            IF db_ok /\ end_conversation_begins(c) THEN "ending" ELSE "done"]
    /\ UNCHANGED <<task, conn, ws, active_connections, active_conversations, ctx, started,
                   call_summary, transcripts, now, sweep, shut, inbound, history,
                   text_input, conversions, manager>>

\* handle_call_status_update, lines 266-275: end_conversation has run, or raised
\* (logged, rollback); the summary the handler then asks for is not made
\* (_generate_call_summary_from_text does not exist, the error is logged)
StatusEnded(c, llm_ok, db_ok) ==
    LET r == end_conversation(c, llm_ok, db_ok) IN
    /\ status_update[c].pc = "ending"
    /\ active_conversations' = r.convs
    /\ call_summary' = r.summ
    /\ status_update' = [status_update EXCEPT ![c].pc = "done"]
    /\ UNCHANGED <<task, conn, ws, active_connections, ctx, started, transcripts, now,
                   sweep, shut, inbound, history, text_input, conversions, manager>>

\* the media stream handlers and the telephony status webhook on the same calls
NextStatus ==
    \/ \E c \in Conversing : start_conversation(c, TRUE)
    \/ \E k \in Conns, c \in Calls, ok \in BOOLEAN : OneStreamPerCall(c) /\ Accept(k, c, ok)
    \/ \E k \in Conns, m \in PlainFrames : Receive(k, m)
    \/ \E k \in Conns : ReceiveFails(k)
    \/ \E k \in Conns, o \in PlainStt : SpeechToText(k, o)
    \/ \E k \in Conns, o \in PlainLlm : GenerateReply(k, o)
    \/ \E k \in Conns, o \in PlainTts, ok \in BOOLEAN : Synthesize(k, o, ok)
    \/ \E k \in Conns, ok \in BOOLEAN : Fallback(k, ok)
    \/ \E k \in Conns, ok \in BOOLEAN : SaveTranscript(k, ok)
    \/ \E k \in Conns, l \in BOOLEAN, d \in BOOLEAN : StopEnded(k, l, d)
    \/ \E k \in Conns : Cleanup(k)
    \/ \E k \in Conns, l \in BOOLEAN, d \in BOOLEAN : CleanupEnded(k, l, d)
    \/ \E c \in Conversing, ok \in BOOLEAN : StatusUpdate(c, ok)
    \/ \E c \in Conversing, l \in BOOLEAN, d \in BOOLEAN : StatusEnded(c, l, d)

SpecStatus == Init /\ [][NextStatus]_vars

\* the media stream handlers when the provider may open a second WebSocket for
\* a call id whose first is still served
NextSameCall ==
    \/ \E c \in Conversing : start_conversation(c, TRUE)
    \/ \E k \in Conns, c \in Calls, ok \in BOOLEAN : Accept(k, c, ok)
    \/ \E k \in Conns, m \in PlainFrames : Receive(k, m)
    \/ \E k \in Conns : ReceiveFails(k)
    \/ \E k \in Conns, o \in PlainStt : SpeechToText(k, o)
    \/ \E k \in Conns, o \in PlainLlm : GenerateReply(k, o)
    \/ \E k \in Conns, o \in PlainTts, ok \in BOOLEAN : Synthesize(k, o, ok)
    \/ \E k \in Conns, ok \in BOOLEAN : Fallback(k, ok)
    \/ \E k \in Conns, ok \in BOOLEAN : SaveTranscript(k, ok)
    \/ \E k \in Conns, l \in BOOLEAN, d \in BOOLEAN : StopEnded(k, l, d)
    \/ \E k \in Conns : Cleanup(k)
    \/ \E k \in Conns, l \in BOOLEAN, d \in BOOLEAN : CleanupEnded(k, l, d)

SpecSameCall == Init /\ [][NextSameCall]_vars

\* ------------------------------------------- monitoring ConnectionManager

\* connect, lines 59-75: "if key: groups.setdefault(key, set()).add(connection_id)"
group_add(groups, key, connection_id) ==
    IF key = None THEN groups
    ELSE Put(groups, key,
             (IF key \in DOMAIN groups THEN groups[key] ELSE {}) \cup {connection_id})

\* ConnectionManager.connect once websocket.accept() has returned, lines 48-75
connect(m, websocket, connection_id, id) ==
    [m EXCEPT !.active_connections = Put(@, connection_id, websocket),
              !.connection_metadata = Put(@, connection_id, id),
              !.tenant_connections = group_add(@, id.tenant_id, connection_id),
              !.user_connections = group_add(@, id.user_id, connection_id),
              !.call_connections = group_add(@, id.call_id, connection_id)]

\* disconnect, lines 100-116: the id is discarded from the group of the key
\* found in its metadata, and the group deleted when it is left empty
group_discard(groups, key, connection_id) ==
    IF key = None \/ key \notin DOMAIN groups THEN groups
    ELSE IF groups[key] \ {connection_id} = {} THEN Del(groups, key)
    ELSE Put(groups, key, groups[key] \ {connection_id})

\* ConnectionManager.disconnect
disconnect(m, connection_id) ==
    LET metadata == IF connection_id \in DOMAIN m.connection_metadata
                    THEN m.connection_metadata[connection_id]
                    ELSE [tenant_id |-> None, user_id |-> None, call_id |-> None]
    IN [m EXCEPT !.active_connections = Del(@, connection_id),
                 !.connection_metadata = Del(@, connection_id),
                 !.tenant_connections = group_discard(@, metadata.tenant_id, connection_id),
                 !.user_connections = group_discard(@, metadata.user_id, connection_id),
                 !.call_connections = group_discard(@, metadata.call_id, connection_id)]

\* send_personal_message, lines 125-126: the id has a websocket and it is connected
Sendable(m, connection_id) ==
    /\ connection_id \in DOMAIN m.active_connections
    /\ m.websockets[m.active_connections[connection_id]].client_state = "CONNECTED"

\* broadcast_to_tenant, lines 144-148, from one await to the next: the loop
\* goes through the listed ids (in the order list(set) gave them), passes the
\* ones that cannot be sent to, and awaits send_text on the first that can; with
\* none left that can, it returns
broadcast_next(m, b) ==
    LET can == { i \in b.connection_ids : Sendable(m, i) }
    IN IF can = {}
       THEN { [NoBroadcast EXCEPT !.sends = b.sends, !.broadcasts = b.broadcasts] }
       ELSE { [b EXCEPT !.pc = "sending", !.connection_id = i,
                        !.websocket = m.active_connections[i],
                        !.connection_ids = @ \ ({i} \cup passed),
                        !.sends = @ + 1] :
                 i \in can, passed \in SUBSET (b.connection_ids \ can) }

\* the next WebSocket to connect
NextSocket ==
    { s \in Sockets : /\ manager.websockets[s].client_state = "CONNECTING"
                      /\ \A r \in Sockets : r < s =>
                            manager.websockets[r].client_state # "CONNECTING" }

\* ConnectionManager.connect(websocket, connection_id, tenant_id, user_id,
\* call_id): accept returns and the connection is stored, or accept raises
Connect(connection_id, id, ok) ==
    /\ \E s \in NextSocket :
         manager' = IF ok
                    THEN connect([manager EXCEPT !.websockets[s].client_state = "CONNECTED"],
                                 s, connection_id, id)
                    ELSE [manager EXCEPT !.websockets[s].client_state = "DISCONNECTED"]
    /\ UNCHANGED <<task, conn, ws, active_connections, active_conversations, ctx, started,
                   call_summary, transcripts, now, sweep, shut, inbound, history,
                   text_input, conversions, status_update>>

\* ConnectionManager.disconnect(connection_id)
Disconnect(connection_id) ==
    /\ manager' = disconnect(manager, connection_id)
    /\ UNCHANGED <<task, conn, ws, active_connections, active_conversations, ctx, started,
                   call_summary, transcripts, now, sweep, shut, inbound, history,
                   text_input, conversions, status_update>>

\* the client of a connected WebSocket goes away
ClientLeaves(s) ==
    /\ manager.websockets[s].client_state = "CONNECTED"
    /\ manager' = [manager EXCEPT !.websockets[s].client_state = "DISCONNECTED"]
    /\ UNCHANGED <<task, conn, ws, active_connections, active_conversations, ctx, started,
                   call_summary, transcripts, now, sweep, shut, inbound, history,
                   text_input, conversions, status_update>>

\* broadcast_to_tenant(message, tenant_id), lines 138-145: the ids of the
\* tenant's group are listed and the first send awaited
BroadcastToTenant(tenant_id) ==
    /\ manager.broadcast.pc = "idle"
    /\ manager.broadcast.broadcasts < MaxBroadcasts
    /\ tenant_id \in DOMAIN manager.tenant_connections
    /\ \E b \in broadcast_next(manager,
                               [manager.broadcast EXCEPT
                                   !.tenant_id = tenant_id,
                                   !.connection_ids = manager.tenant_connections[tenant_id],
                                   !.broadcasts = @ + 1]) :
         manager' = [manager EXCEPT !.broadcast = b]
    /\ UNCHANGED <<task, conn, ws, active_connections, active_conversations, ctx, started,
                   call_summary, transcripts, now, sweep, shut, inbound, history,
                   text_input, conversions, status_update>>

\* send_personal_message, lines 128-133: send_text returns, or raises and the
\* connection id is disconnected; the broadcast loop goes on
SendReturns(ok) ==
    LET b == manager.broadcast
        s == b.websocket
        delivered == ok /\ manager.websockets[s].client_state = "CONNECTED"
        m == IF delivered
             THEN [manager EXCEPT !.websockets[s].received = @ \cup {b.tenant_id}]
             ELSE disconnect(manager, b.connection_id)
    IN
    /\ b.pc = "sending"
    /\ \E nb \in broadcast_next(m, b) : manager' = [m EXCEPT !.broadcast = nb]
    /\ UNCHANGED <<task, conn, ws, active_connections, active_conversations, ctx, started,
                   call_summary, transcripts, now, sweep, shut, inbound, history,
                   text_input, conversions, status_update>>

\* the ConnectionManager on its own, under any sequence of calls
NextManager ==
    \/ \E i \in ConnIds, id \in Identities, ok \in BOOLEAN : Connect(i, id, ok)
    \/ \E i \in ConnIds : Disconnect(i)
    \/ \E s \in Sockets : ClientLeaves(s)
    \/ \E t \in Tenants : BroadcastToTenant(t)
    \/ \E ok \in BOOLEAN : SendReturns(ok)

SpecManager == Init /\ [][NextManager]_vars

\* ================================================================ properties

\* the finally block of handler k returns from _cleanup_connection in this step
FinallyReturns(k) == task[k].pc \in {"cleanup", "cl_ending"} /\ task'[k].pc = "done"

\* the sweep's call _cleanup_connection(c, None) is made in this step
SweepCleans(c) ==
    \/ SweepStart /\ c \in StaleCalls /\ active_connections' = unregister(c)
    \/ SweepNext(c)

\* the handler of connection k has begun its teardown
TeardownBegun(k) == task[k].pc \in {"cleanup", "cl_ending", "done"}

NotRegistered(reg, k) == \A c \in Calls : reg[c] # k

\* C1: once _cleanup_connection(c, ...) has returned, for the handler's exit
\* or for the sweep, c is in neither active_connections nor active_conversations
C1_CleanupLeavesNoEntry ==
    [][\A c \in Calls :
          ((\E k \in Conns : task[k].call_id = c /\ FinallyReturns(k)) \/ SweepCleans(c))
          => active_connections'[c] = NoConn /\ c \notin active_conversations']_vars

\* C2: a started call whose connection is registered, and whose handler has
\* not begun teardown, has its context in active_conversations
C2_RegisteredHasContext ==
    \A c \in started :
        LET k == active_connections[c] IN
        (k # NoConn /\ ~TeardownBegun(k)) => c \in active_conversations

\* C3: when _cleanup_connection runs for a call id whose connection an earlier
\* cleanup has already removed and closed, it changes neither registry, does
\* not summarise the conversation and closes no socket
C3_SecondCleanupIsNoOp ==
    [][\A k \in Conns :
          (task[k].pc \in {"cleanup", "cl_ending"} /\ ws[k].closed /\ task'[k] # task[k])
          => /\ active_connections' = active_connections
             /\ active_conversations' = active_conversations
             /\ call_summary' = call_summary
             /\ \A j \in Conns : ws'[j].closed = ws[j].closed]_vars

\* the connections a sweep cycle found overdue when it started
CycleTargets == IF sweep.pc = "sleep" THEN Overdue ELSE sweep.targets

\* the sweep makes the last cleanup of a cycle
SweepCycleEnds == (SweepStart \/ \E c \in Calls : SweepNext(c)) /\ sweep'.pc = "sleep"

C5_ShutdownLeavesNothing ==
    [][(shut.pc # "done" /\ shut'.pc = "done") =>
          /\ \A c \in Calls : active_connections'[c] = NoConn
          /\ \A k \in shut.targets :
                ws'[k].closed /\ task[k].call_id \notin active_conversations']_vars

\* C6: when the speech-to-text service raises during a media event, the
\* connection's error_count goes up by one and the handler is back in the loop
C6_SttExceptionCounts ==
    [][\A k \in Conns :
          SpeechToText(k, [kind |-> "raise", text |-> ""])
          => conn'[k].error_count = conn[k].error_count + 1 /\ task'[k].pc = "recv"]_vars

\* C7: when the handling of a stop event is over, the conversation is ended,
\* stream_sid is cleared and the receive loop has ended (teardown follows)
C7_StopEndsLoop ==
    [][\A k \in Conns :
          (task[k].pc = "stop_ending" /\ task'[k].pc # "stop_ending")
          => /\ task[k].call_id \notin active_conversations'
             /\ conn'[k].stream_sid = None
             /\ task'[k].pc = "cleanup"]_vars

\* a frame goes out on socket r in this step
FrameSent(r) == ws'[r].sent # ws[r].sent /\ ws'[r].sent # <<>>

LastMessages(c, n) ==
    SubSeq(ctx[c].messages, Len(ctx[c].messages) - n + 1, Len(ctx[c].messages))

\* in a turn, the context ends with the user message, then with the user
\* message and the assistant message
TurnMessages ==
    \A k \in Conns :
        LET c == task[k].call_id IN
        /\ task[k].pc = "llm" =>
              /\ Len(ctx[c].messages) >= 1
              /\ LastMessages(c, 1) = <<[role |-> "user", content |-> task[k].transcript]>>
        /\ (task[k].pc \in {"tts", "fallback", "save"} /\ task[k].response_text # None) =>
              /\ Len(ctx[c].messages) >= 2
              /\ LastMessages(c, 2) = <<[role |-> "user", content |-> task[k].transcript],
                                        [role |-> "assistant", content |-> task[k].response_text]>>

\* the steps of a turn on connection k but the sending of its audio: one user
\* message, then one assistant message, no frame and no transcript row before
\* both are appended; text-to-speech is started when the connection is
\* registered with a stream id; at the end the transcript row of the turn is
\* written, or the write has failed
TurnSteps(k) ==
    LET c == task[k].call_id IN
    /\ (task[k].pc = "stt" /\ task'[k].pc = "llm") =>
          /\ ctx'[c].messages =
                Append(ctx[c].messages, [role |-> "user", content |-> task'[k].transcript])
          /\ ws' = ws /\ transcripts' = transcripts
    /\ (task[k].pc = "llm" /\ task'[k].pc # "llm") =>
          /\ ctx'[c].messages =
                Append(ctx[c].messages, [role |-> "assistant", content |-> task'[k].response_text])
          /\ ws' = ws /\ transcripts' = transcripts
          /\ (active_connections[c] = k /\ conn[k].stream_sid \notin {None, ""})
                => task'[k].pc = "tts"
    /\ (task[k].pc \in {"tts", "fallback"} /\ task'[k].pc # task[k].pc) =>
          ctx' = ctx /\ transcripts' = transcripts
    /\ (task[k].pc = "save" /\ task'[k].pc # "save") =>
          /\ ctx' = ctx /\ ws' = ws
          /\ \/ transcripts' = transcripts
             \/ transcripts'[c] = Append(transcripts[c], [user |-> task[k].transcript,
                                                          assistant |-> task[k].response_text])

\* a media frame with connection k's stream id goes out on its socket, or the
\* send is attempted and raises
MediaFrameAttempted(k) ==
    \/ /\ ws'[k].sent = Append(ws[k].sent, Frame("media", conn[k].stream_sid))
       /\ task'[k].pc = "save"
    \/ ws' = ws /\ task'[k].pc = "fallback"

C10_EmptyTranscriptNoTurn ==
    [][\A k \in Conns :
          (task[k].pc = "stt" /\ task'[k].pc # "stt" /\ task'[k].transcript \in {None, "", "  "})
          => /\ ctx' = ctx /\ ws' = ws /\ transcripts' = transcripts
             /\ task'[k].pc = "recv"]_vars

\* C10, the case: an empty transcript has been handled on a call that has its
\* context registered and its stream id set
C10_HeardNothing ==
    \E k \in Conns :
        /\ task[k].pc = "recv" /\ task[k].transcript = ""
        /\ task[k].call_id \in active_conversations
        /\ active_connections[task[k].call_id] = k
        /\ conn[k].stream_sid = "SS1"

\* no media frame goes out on any socket in this step
NoMediaFrameSent ==
    \A j \in Conns : FrameSent(j) => ws'[j].sent[Len(ws'[j].sent)].event # "media"

\* the call served by connection k is not terminated in this step: registries
\* and sockets' open/closed state stay as they are
NotTerminated ==
    /\ active_connections' = active_connections
    /\ active_conversations' = active_conversations
    /\ \A j \in Conns : ws'[j].closed = ws[j].closed

C12_LateSpeechSendsMark ==
    [][\A k \in Conns, ok \in BOOLEAN, o \in {"late_audio", "late_empty"} :
          (task[k].ret = "turn" /\ Synthesize(k, o, ok))
          => NoMediaFrameSent /\ task'[k].pc = "save"]_vars

\* C13: when the transcription call raises, the handler sees an empty
\* transcript and skips the turn: no message is appended, nothing is sent,
\* the call is not terminated and the handler is back in the receive loop
C13_SttFailureSkipsTurn ==
    [][\A k \in Conns :
          SpeechToText(k, [kind |-> "raise", text |-> ""])
          => /\ task'[k].transcript \in {None, ""}
             /\ ctx' = ctx /\ ws' = ws
             /\ NotTerminated
             /\ task'[k].pc = "recv"]_vars

\* C14: when reply generation fails, _generate_ai_response returns the fixed
\* apology; the turn goes on with it: it is appended as the assistant message
\* after the user message, its audio is attempted when the connection is
\* registered with a stream id, and the call is not terminated
C14_ReplyFailureApologises ==
    [][\A k \in Conns :
          LET c == task[k].call_id IN
          /\ GenerateReply(k, "raise") => task'[k].response_text = APOLOGY_LLM
          /\ (task[k].pc = "llm" /\ task'[k].pc # "llm"
                 /\ task'[k].response_text = APOLOGY_LLM)
             => /\ ctx'[c].messages =
                      Append(ctx[c].messages, [role |-> "assistant", content |-> APOLOGY_LLM])
                /\ TurnMessages'
                /\ (active_connections[c] = k /\ conn[k].stream_sid \notin {None, ""})
                      => task'[k].pc = "tts" /\ task'[k].snd = k
                /\ task'[k].pc \in {"tts", "save"}
                /\ NotTerminated]_vars

\* C14, the case: the apology has been appended after the user message and
\* sent as audio on the open, registered connection
C14_ApologySpoken ==
    \E k \in Conns :
        /\ task[k].pc = "save" /\ task[k].response_text = APOLOGY_LLM
        /\ ws[k].sent = <<Frame("media", "SS1")>> /\ ~ws[k].closed
        /\ active_connections[task[k].call_id] = k
        /\ LastMessages(task[k].call_id, 2) =
              <<[role |-> "user", content |-> "what are your hours"],
                [role |-> "assistant", content |-> APOLOGY_LLM]>>

\* C15: end_conversation called for a call id without a registered context
\* (by the handler of a stop event) returns at once and raises nothing: the
\* registries, the contexts and the call-record store are unchanged, no
\* summary is written and the handler is back in the receive loop
C15_EndUnknownChangesNothing ==
    [][\A k \in Conns :
          (task[k].call_id \notin active_conversations
              /\ Receive(k, Msg("stop", None, None, None)))
          => /\ active_conversations' = active_conversations
             /\ active_connections' = active_connections
             /\ call_summary' = call_summary /\ transcripts' = transcripts
             /\ ctx' = ctx
             /\ conn'[k].error_count = conn[k].error_count
             /\ task'[k].pc = "recv"]_vars

\* C15, the case: a stop event has been handled (the stream id of the earlier
\* start is cleared) on a call that never had a context, and nothing was
\* recorded for it
C15_StopWithoutContext ==
    \E k \in Conns :
        /\ task[k].pc = "recv" /\ task[k].call_id \notin started
        /\ conn[k].stream_sid = None /\ conn[k].media_format = "mulaw"
        /\ call_summary[task[k].call_id] = None

\* the larger and the smaller of two integers
Min(a, b) == IF a < b THEN a ELSE b

\* C16: get_conversation_history(limit) returns at most limit messages for
\* every integer limit and every message list, and an empty sequence for a
\* limit of zero or less
C16_HistoryAtMostLimit ==
    history.call_id # None =>
        IF history.limit <= 0
        THEN history.result = <<>>
        ELSE Len(history.result) <= history.limit

\* C17: for every limit of at least 1, get_conversation_history(limit) returns
\* exactly the last min(limit, n) of the n messages, in their original order,
\* and changes neither messages nor context_data
C17_HistoryIsLastMessages ==
    [][\A c \in Calls, limit \in Limits :
          (limit >= 1 /\ GetHistory(c, limit))
          => LET messages == ctx[c].messages
                 n == Len(messages)
                 r == history'.result
             IN /\ Len(r) = Min(limit, n)
                /\ \A i \in 1..Len(r) : r[i] = messages[n - Len(r) + i]
                /\ ctx' = ctx]_vars

\* C17, the case: a history read with a limit smaller than the number of
\* messages returned that many messages, ending with the context's last one
C17_HistoryTruncated ==
    /\ history.call_id # None
    /\ history.limit >= 1
    /\ history.limit < Len(ctx[history.call_id].messages)
    /\ Len(history.result) = history.limit
    /\ history.result[Len(history.result)] =
           ctx[history.call_id].messages[Len(ctx[history.call_id].messages)]
    /\ history.result[1] # history.result[Len(history.result)]

\* C18: a handler whose call has a context made by start_conversation enters
\* its receive loop for the first time (from accept, or from the greeting's
\* send) only after it has sent the greeting on its socket as a media frame
C18_GreetingBeforeLoop ==
    [][\A k \in Conns :
          (/\ \/ task[k].pc = "new"
              \/ task[k].pc \in {"tts", "fallback"} /\ task[k].ret = "greet"
           /\ task'[k].pc = "recv"
           /\ task'[k].call_id \in started \cap active_conversations)
          => \E i \in 1..Len(ws'[k].sent) : ws'[k].sent[i].event = "media"]_vars

\* C19: within one call nothing is processed concurrently with a turn, so the
\* appends of two turns never interleave in the context's messages: a handler
\* waiting for the LLM has its own user message last in the context, and after
\* the greeting user and assistant messages alternate
C19_TurnsDoNotInterleave ==
    /\ \A k \in Conns :
          task[k].pc = "llm" =>
             LastMessages(task[k].call_id, 1) =
                <<[role |-> "user", content |-> task[k].transcript]>>
    /\ \A c \in Calls : \A i \in 1..(Len(ctx[c].messages) - 1) :
          ctx[c].messages[i].role # ctx[c].messages[i + 1].role

\* C20: after 30 s without an inbound message the handler pings the peer; with
\* a peer that is alive the ping succeeds, the connection stays registered and
\* the handler stays in its receive loop; only a failed ping ends the call
C20_IdleAliveStaysOpen ==
    [][\A k \in Conns :
          ReceiveTimeout(k, TRUE)
          => /\ task'[k].pc = "recv"
             /\ active_connections' = active_connections]_vars

\* the inbound frames that violate the protocol: malformed JSON, an unknown
\* event type, a start event without a stream id
ProtocolViolations ==
    { m \in Inbound : \/ m.event \in {"malformed", "mark"}
                      \/ m.event = "start" /\ m.streamSid \in {None, ""} }

\* C21: a frame that violates the protocol is ignored: the stream id, the media
\* format and the error count of every connection, the contexts and both
\* registries are unchanged, nothing is sent, no socket is closed and the
\* handler is back in its receive loop
C21_ViolationIgnored ==
    [][\A k \in Conns, m \in ProtocolViolations :
          Receive(k, m)
          => /\ \A j \in Conns : /\ conn'[j].stream_sid = conn[j].stream_sid
                                 /\ conn'[j].media_format = conn[j].media_format
                                 /\ conn'[j].error_count = conn[j].error_count
                                 /\ ws'[j].sent = ws[j].sent
                                 /\ ws'[j].closed = ws[j].closed
             /\ ctx' = ctx
             /\ active_connections' = active_connections
             /\ active_conversations' = active_conversations
             /\ task'[k].pc = "recv"]_vars

\* C21, the case: the last frame a registered connection handled was a start
\* event, and the connection has no stream id: the event came without one
C21_StartWithoutSidIgnored ==
    \E k \in Conns :
        /\ task[k].pc = "recv" /\ task[k].event_type = "start"
        /\ active_connections[task[k].call_id] = k
        /\ conn[k].stream_sid = None /\ conn[k].media_format = "{}"
        /\ ~ws[k].closed

C23_SweepEndsConversation ==
    [][\A c \in Calls :
          SweepCleans(c)
          => /\ active_connections'[c] = NoConn
             /\ c \in active_conversations
                   => c \notin active_conversations' /\ call_summary'[c] # None
             /\ active_connections[c] # NoConn => ws'[active_connections[c]].closed]_vars

\* C24: a failure of the call-record store is never propagated: when the
\* transcript write fails the turn is over and the handler back in its loop,
\* and when the store fails in end_conversation, at a stop event or in the
\* cleanup, end_conversation raises nothing and the context is removed
C24_StoreFailureNotPropagated ==
    [][\A k \in Conns :
          /\ SaveTranscript(k, FALSE) => task'[k].pc = "recv"
          /\ \A llm_ok \in BOOLEAN :
                (StopEnded(k, llm_ok, FALSE) \/ CleanupEnded(k, llm_ok, FALSE))
                => /\ ~end_conversation(task[k].call_id, llm_ok, FALSE).raised
                   /\ task[k].call_id \notin active_conversations']_vars

\* C25: the messages of every context are append-only: a step leaves them as
\* they are or appends exactly one message at the end, every message already
\* there staying unchanged at its position
C25_MessagesAppendOnly ==
    [][\A c \in Calls :
          LET old == ctx[c].messages
              new == ctx'[c].messages
          IN /\ Len(new) \in {Len(old), Len(old) + 1}
             /\ \A i \in 1..Len(old) : new[i] = old[i]]_vars

\* C25, the case: a call has had its greeting and a turn, its summary has been
\* generated from the messages and its conversation ended, and the context
\* still holds the three messages in the order they were appended
C25_HistoryKeptThroughTeardown ==
    \E c \in Calls :
        /\ c \in started /\ c \notin active_conversations
        /\ call_summary[c] = "summary"
        /\ Len(ctx[c].messages) = 3
        /\ ctx[c].messages[1] = [role |-> "assistant", content |-> GREETING]
        /\ ctx[c].messages[2].role = "user"
        /\ ctx[c].messages[3].role = "assistant"

\* C26: when the LLM answers with a function call, the reply is the sentence
\* made for the call and the context records it: for transfer_to_human the
\* transfer request and its reason, for schedule_callback the callback
C26_ToolCallRecorded ==
    [][\A k \in Conns :
          LET c == task[k].call_id IN
          /\ GenerateReply(k, "transfer_to_human")
                => /\ task'[k].response_text = TRANSFER_REPLY
                   /\ {"transfer_requested", "transfer_reason"} \subseteq ctx'[c].context_data
          /\ GenerateReply(k, "schedule_callback")
                => /\ task'[k].response_text = CALLBACK_REPLY
                   /\ ctx'[c].context_data # ctx[c].context_data]_vars

\* C27: when the summary LLM call fails while a conversation with messages is
\* ended, at a stop event or in the cleanup, and the store works,
\* end_conversation raises nothing, the call record gets the fixed fallback
\* summary and the context is removed from active_conversations
C27_SummaryFailureStillEnds ==
    [][\A k \in Conns :
          LET c == task[k].call_id IN
          (/\ StopEnded(k, FALSE, TRUE) \/ CleanupEnded(k, FALSE, TRUE)
           /\ c \in active_conversations /\ ctx[c].messages # <<>>)
          => /\ ~end_conversation(c, FALSE, TRUE).raised
             /\ call_summary'[c] = SUMMARY_FAILED
             /\ c \notin active_conversations']_vars

\* C27, the case: a started call is ended, and its record holds the fallback summary
C27_EndedWithFallbackSummary ==
    \E c \in Calls :
        /\ c \in started /\ c \notin active_conversations
        /\ call_summary[c] = SUMMARY_FAILED

\* nothing of call c changes in this step: its registry entries, its context,
\* and the ConnectionState and socket of its connections
Untouched(c) ==
    /\ active_connections'[c] = active_connections[c]
    /\ (c \in active_conversations') = (c \in active_conversations)
    /\ ctx'[c] = ctx[c]
    /\ \A j \in Conns : task[j].call_id = c => conn'[j] = conn[j] /\ ws'[j] = ws[j]

\* C28: a step of one call's handler (accept, an event, a turn, an error, its
\* teardown) and the sweep's teardown of one call leave every other call's
\* ConnectionState, context and registry entries unchanged
C28_OtherCallsUntouched ==
    [][\A c \in Calls :
          (\/ \E k \in Conns : task'[k] # task[k] /\ task'[k].call_id # c
           \/ \E d \in Calls \ {c} : SweepCleans(d))
          => Untouched(c)]_vars

\* C28, the case: both calls have had a turn on their own stream; one is torn
\* down and its conversation ended while the other is registered, streaming
\* and has its context with its own three messages
C28_OneEndedOtherStreaming ==
    \E k \in Conns, j \in Conns :
        /\ task[k].pc = "done" /\ task[j].pc = "recv"
        /\ task[k].call_id # task[j].call_id
        /\ task[k].call_id \in started \ active_conversations
        /\ Len(ctx[task[k].call_id].messages) = 3
        /\ task[j].call_id \in active_conversations
        /\ active_connections[task[j].call_id] = j
        /\ conn[j].stream_sid = "SS1"
        /\ Len(ctx[task[j].call_id].messages) = 3

\* C29: start_conversation for a tenant that exists registers the context under
\* the call id with exactly one message, the assistant greeting of the
\* template; for an unknown tenant it registers nothing and no context changes
C29_StartRegistersGreeting ==
    [][\A c \in Calls :
          /\ start_conversation(c, TRUE)
                => /\ active_conversations' = active_conversations \cup {c}
                   /\ ctx'[c].messages = <<[role |-> "assistant", content |-> GREETING]>>
          /\ start_conversation(c, FALSE)
                => /\ active_conversations' = active_conversations
                   /\ ctx' = ctx]_vars

\* C29, the case: a call has been started and nothing else has happened on it:
\* it is registered and its context holds the greeting alone
C29_StartedWithGreeting ==
    \E c \in Calls :
        /\ c \in started /\ c \in active_conversations
        /\ ctx[c].messages = <<[role |-> "assistant", content |-> GREETING]>>
        /\ ctx[c].context_data = TenantKeys
        /\ \A k \in Conns : task[k].pc = "new"

\* C30: convert_for_whisper and convert_for_twilio never raise; when the
\* conversion fails (for convert_for_twilio, from MP3 and then from WAV) they
\* return their input bytes unchanged
C30_ConversionsNeverRaise ==
    [][/\ \A a \in AudioInputs, ok \in BOOLEAN :
            ConvertForWhisper(a, ok)
            => /\ ~conversions'.whisper.raised
               /\ ~ok => conversions'.whisper.result = a
       /\ \A a \in AudioInputs, mp3_ok \in BOOLEAN, wav_ok \in BOOLEAN :
            ConvertForTwilio(a, mp3_ok, wav_ok)
            => /\ ~conversions'.twilio.raised
               /\ (~mp3_ok /\ ~wav_ok) => conversions'.twilio.result = a]_vars

\* C30, the case: both conversions have been called on audio they could not
\* convert, and each gave its input back
C30_BothGaveInputBack ==
    /\ conversions.whisper.input \in AudioInputs
    /\ conversions.whisper.result = conversions.whisper.input
    /\ conversions.twilio.input.enc = "junk"
    /\ conversions.twilio.result = conversions.twilio.input

SweptWithContext(c) ==
    /\ c \in active_conversations
    /\ \E k \in Conns : task[k].call_id = c /\ Live(k) /\ ws[k].closed
                        /\ active_connections[c] # k

\* C32: once the sweep has removed a call's ConnectionState and closed its
\* socket, the call's context is eventually removed from active_conversations
C32_ContextEndsAfterSweep ==
    \A c \in Calls : SweptWithContext(c) ~> (c \notin active_conversations)

\* an invocation of end_conversation(c, db) that found the context returns in
\* this step, the store having taken its update
EndReturns(c, llm_ok) ==
    \/ \E k \in Conns : /\ task[k].call_id = c
                        /\ StopEnded(k, llm_ok, TRUE) \/ CleanupEnded(k, llm_ok, TRUE)
    \/ StatusEnded(c, llm_ok, TRUE)

\* C33: when end_conversation runs concurrently for one call id, no invocation
\* raises (the context it removes is still registered) and the summary is
\* persisted at most once (none has been persisted before)
C33_ConcurrentEndsOnce ==
    [][\A c \in Calls, llm_ok \in BOOLEAN :
          EndReturns(c, llm_ok)
          => c \in active_conversations /\ call_summary[c] = None]_vars

\* handler k takes a step of its teardown (_cleanup_connection from its finally)
TeardownStep(k) == task[k].pc \in {"cleanup", "cl_ending"} /\ task'[k] # task[k]

\* the handler of connection j is between accept and its finally block
Serving(j) == task[j].pc \notin {"new", "cleanup", "cl_ending", "done"}

\* a step of one handler's teardown leaves every other connection's registry
\* entry in place and its socket as it was
TeardownSparesOthers ==
    \A k \in Conns : TeardownStep(k) =>
        \A j \in Conns \ {k} :
            /\ \A c \in Calls : active_connections[c] = j => active_connections'[c] = j
            /\ ws'[j].closed = ws[j].closed

\* an accepted socket whose handler serves it keeps its registry entry through
\* the steps of the other tasks
EntryKeptWhileServing ==
    \A j \in Conns : (Serving(j) /\ ws[j].accepted /\ task'[j] = task[j])
                     => (active_connections[task[j].call_id] = j
                         => active_connections'[task[j].call_id] = j)

\* C34: with a second WebSocket on a call id that has a live connection, the
\* end of one connection neither deletes the other's registry entry nor closes
\* the other's socket, and every accepted socket whose handler still serves it
\* has its registry entry
C34_EachHandlerOwnsItsEntry == [][TeardownSparesOthers /\ EntryKeptWhileServing]_vars

\* the frames this step puts on the sockets, all sockets together
FramesAdded ==
    { <<j, i>> \in Conns \X (1..(MaxInbound + 1)) :
         i > Len(ws[j].sent) /\ i <= Len(ws'[j].sent) }
MediaDelivered == \E p \in FramesAdded : ws'[p[1]].sent[p[2]].event = "media"
MarkDelivered == \E p \in FramesAdded : ws'[p[1]].sent[p[2]].event = "mark"

\* handler k takes a step inside _send_audio_response, or enters it and
\* returns at once
SendStep(k) == task[k].pc \in {"llm", "tts", "fallback"} /\ task'[k] # task[k]

\* _send_audio_response of handler k calls _send_fallback_response in this
\* step, the transport taking the frame if one is sent (ok)
FallbackCalled(k, ok) ==
    \/ \E o \in TtsOutcomes : text_to_speech(o) = "" /\ Synthesize(k, o, ok)
    \/ Fallback(k, ok)

C36_SweepEvictsOnlyStale ==
    [][/\ \A c \in Calls :
             (SweepCleans(c) /\ active_connections[c] # NoConn)
             => now - conn[active_connections[c]].last_activity > timeout_minutes
       /\ \A k \in Conns :
             (Live(k) /\ task'[k].pc # "done")
             => conn'[k].last_activity >= conn[k].last_activity]_vars

\* every id of a group is a key of active_connections and of
\* connection_metadata, recorded there with the group's key, and the group is
\* not empty
GroupAgrees(m, groups, field) ==
    \A key \in DOMAIN groups :
        /\ groups[key] # {}
        /\ \A i \in groups[key] :
              /\ i \in DOMAIN m.active_connections
              /\ i \in DOMAIN m.connection_metadata
              /\ m.connection_metadata[i][field] = key

\* the connection id is in no index of the manager
InNoIndex(m, i) ==
    /\ i \notin DOMAIN m.active_connections
    /\ i \notin DOMAIN m.connection_metadata
    /\ \A key \in DOMAIN m.tenant_connections : i \notin m.tenant_connections[key]
    /\ \A key \in DOMAIN m.user_connections : i \notin m.user_connections[key]
    /\ \A key \in DOMAIN m.call_connections : i \notin m.call_connections[key]

\* C37: after any sequence of connect, disconnect and sends the indexes of the
\* ConnectionManager agree (group members are registered under the group's
\* key, no group is empty), and after disconnect(id) the id is in no index
C37_IndexesAgree ==
    [][/\ GroupAgrees(manager', manager'.tenant_connections, "tenant_id")
       /\ GroupAgrees(manager', manager'.user_connections, "user_id")
       /\ GroupAgrees(manager', manager'.call_connections, "call_id")
       /\ \A i \in ConnIds : Disconnect(i) => InNoIndex(manager', i)]_vars

\* broadcast_to_tenant calls send_text in this step
SendBegins == manager'.broadcast.sends = manager.broadcast.sends + 1

\* C38: broadcast_to_tenant(message, T) sends only to a socket whose
\* connection is registered with tenant T at that moment; a send failure
\* removes the failing connection and no other
C38_BroadcastStaysInTenant ==
    [][/\ SendBegins =>
             \E i \in DOMAIN manager'.active_connections :
                 /\ manager'.active_connections[i] = manager'.broadcast.websocket
                 /\ manager'.connection_metadata[i].tenant_id = manager'.broadcast.tenant_id
       /\ (SendReturns(FALSE) /\ manager.broadcast.pc = "sending") =>
             \A i \in DOMAIN manager.active_connections :
                 i \notin DOMAIN manager'.active_connections
                 => manager.active_connections[i] = manager.broadcast.websocket]_vars

====
